---- MODULE Spec2Model ----
(***************************************************************************)
(* Model of the conjure control core: the event loop of System::start and  *)
(* its handlers (src/src/system.rs), over the connection pool (pool::Pool) *)
(* and the editor server (editor::Server).  The pool and the server are    *)
(* other modules of the repository; they are modelled from the contract    *)
(* the specification gives for the registry and the sink.                  *)
(***************************************************************************)
EXTENDS Integers, Sequences, FiniteSets, TLC

\* ------------------------------------------------------------------ bounds
\* Most events that may wait in the mpsc channel at once.
MaxQueue == 1
\* Socket descriptors the process may hold open at once.
MaxSock == 3

\* ------------------------------------------------------------------ inputs
KEYS == {"a", "b"}
ADDRS == {"127.0.0.1:7890", "127.0.0.1:7891"}
PATHS == {"foo.clj", "foo.py"}
EXPRS == {"\\.clj$", "."}
CODES == {"(+ 1 2)"}
NAMES == {"map"}
MSGS == {"bad command"}
Socks == 1..MaxSock

DEFAULT_TAG == "Conjure"

\* Regex::is_match for the rules and paths above: "\.clj$" matches the paths
\* ending in .clj, "." matches every non-empty path.
Matches(expr, path) ==
    IF expr = "\\.clj$" THEN path = "foo.clj" ELSE expr = "."

\* The values of editor::Event, and the Err(msg) items of the channel.
QuitEvents == {[type |-> "Quit"]}
ListEvents == {[type |-> "List"]}
ShowLogEvents == {[type |-> "ShowLog"]}
ConnectEvents ==
    {[type |-> "Connect", key |-> k, addr |-> a, expr |-> x] :
        k \in KEYS, a \in ADDRS, x \in EXPRS}
DisconnectEvents == {[type |-> "Disconnect", key |-> k] : k \in KEYS}
EvalEvents == {[type |-> "Eval", code |-> c, path |-> p] : c \in CODES, p \in PATHS}
DocEvents == {[type |-> "Doc", name |-> n, path |-> p] : n \in NAMES, p \in PATHS}
ParseErrors == {[type |-> "Err", msg |-> m] : m \in MSGS}
Items ==
    QuitEvents \cup ListEvents \cup ShowLogEvents \cup ConnectEvents
        \cup DisconnectEvents \cup EvalEvents \cup DocEvents \cup ParseErrors

NoEvent == [type |-> "None"]

VARIABLES
    state,      \* "Running" while the for loop of start runs, else "Terminated"
    rx,         \* the items waiting in the mpsc channel, oldest first
    txOpen,     \* the server still holds the sending half of the channel
    pool,       \* the connections of the pool, in insertion order
    open,       \* the sockets that are open
    stale,      \* the open sockets whose backend no longer answers
    ev,         \* the item the loop handled last
    result,     \* what the registry or sink call of that item returned
    written,    \* the lines that item made the loop write to the sink
    wire        \* the requests that item made the pool transmit

vars == <<state, rx, txOpen, pool, open, stale, ev, result, written, wire>>

\* ------------------------------------------------------------ sink lines
LogLine(text) == [chan |-> "log", tag |-> DEFAULT_TAG, text |-> text]
ErrLine(text) == [chan |-> "err", tag |-> "", text |-> text]

\* ------------------------------------------------------------------ pool
PoolKeys(p) == {p[i].key : i \in DOMAIN p}
has_connections(p) == Len(p) > 0
IndexOfKey(p, key) ==
    IF key \in PoolKeys(p) THEN CHOOSE i \in DOMAIN p : p[i].key = key ELSE 0
RemoveAt(p, i) == [j \in 1..(Len(p) - 1) |-> IF j < i THEN p[j] ELSE p[j + 1]]
Matching(p, path) == {i \in DOMAIN p : Matches(p[i].expr, path)}
FirstMatch(p, path) ==
    IF Matching(p, path) = {} THEN 0
    ELSE CHOOSE i \in Matching(p, path) : \A j \in Matching(p, path) : i <= j
FreeSock(o) == CHOOSE s \in Socks \ o : \A t \in Socks \ o : s <= t

\* pool_connect without the check for a key that is already connected.
pool_connect_nodup(p, o, key, addr, expr, reachable) ==
    IF ~reachable \/ Socks \ o = {}
    THEN [res |-> "Unreachable", pool |-> p, open |-> o]
    ELSE [res |-> "Ok",
          pool |-> Append(p, [key |-> key, addr |-> addr, expr |-> expr,
                              sock |-> FreeSock(o)]),
          open |-> o \cup {FreeSock(o)}]

\* pool_connect that opens the socket first and leaves it open when the
\* address cannot be reached.
pool_connect_halfopen(p, o, key, addr, expr, reachable) ==
    IF key \in PoolKeys(p)
    THEN [res |-> "DuplicateKey", pool |-> p, open |-> o]
    ELSE IF Socks \ o = {}
    THEN [res |-> "Unreachable", pool |-> p, open |-> o]
    ELSE IF ~reachable
    THEN [res |-> "Unreachable", pool |-> p, open |-> o \cup {FreeSock(o)}]
    ELSE [res |-> "Ok",
          pool |-> Append(p, [key |-> key, addr |-> addr, expr |-> expr,
                              sock |-> FreeSock(o)]),
          open |-> o \cup {FreeSock(o)}]

\* pool_connect that enters the key before it connects and keeps the entry
\* when the address cannot be reached.
pool_connect_reserve(p, o, key, addr, expr, reachable) ==
    IF key \in PoolKeys(p)
    THEN [res |-> "DuplicateKey", pool |-> p, open |-> o]
    ELSE IF Socks \ o = {}
    THEN [res |-> "Unreachable", pool |-> p, open |-> o]
    ELSE [res |-> IF reachable THEN "Ok" ELSE "Unreachable",
          pool |-> Append(p, [key |-> key, addr |-> addr, expr |-> expr,
                              sock |-> FreeSock(o)]),
          open |-> o \cup {FreeSock(o)}]

\* Pool::connect: the result, the pool and the open sockets afterwards.
\* reachable says whether the outbound connection to addr can be set up.
pool_connect(p, o, key, addr, expr, reachable) ==
    IF key \in PoolKeys(p)
    THEN [res |-> "DuplicateKey", pool |-> p, open |-> o]
    ELSE IF ~reachable \/ Socks \ o = {}
    THEN [res |-> "Unreachable", pool |-> p, open |-> o]
    ELSE [res |-> "Ok",
          pool |-> Append(p, [key |-> key, addr |-> addr, expr |-> expr,
                              sock |-> FreeSock(o)]),
          open |-> o \cup {FreeSock(o)}]

\* pool_disconnect that drops the entry and leaves its socket open.
pool_disconnect_leak(p, o, key) ==
    IF key \notin PoolKeys(p)
    THEN [res |-> "UnknownKey", pool |-> p, open |-> o]
    ELSE [res |-> "Ok", pool |-> RemoveAt(p, IndexOfKey(p, key)), open |-> o]

\* Pool::disconnect: the result, the pool and the open sockets afterwards.
pool_disconnect(p, o, key) ==
    IF key \notin PoolKeys(p)
    THEN [res |-> "UnknownKey", pool |-> p, open |-> o]
    ELSE [res |-> "Ok",
          pool |-> RemoveAt(p, IndexOfKey(p, key)),
          open |-> o \ {p[IndexOfKey(p, key)].sock}]

\* Pool::eval and Pool::doc: route by path, then send one request of the
\* given kind to the first matching connection.
pool_send(p, st, kind, text, path) ==
    IF FirstMatch(p, path) = 0
    THEN [res |-> "NoMatch", wire |-> <<>>]
    ELSE IF p[FirstMatch(p, path)].sock \in st
    THEN [res |-> "ConnectionUnavailable", wire |-> <<>>]
    ELSE [res |-> "Ok",
          wire |-> <<[sock |-> p[FirstMatch(p, path)].sock,
                      key |-> p[FirstMatch(p, path)].key,
                      kind |-> kind, text |-> text]>>]
pool_eval(p, st, code, path) == pool_send(p, st, "eval", code, path)
pool_doc(p, st, name, path) == pool_send(p, st, "doc", name, path)

\* ------------------------------------------------------------------ init
Init ==
    /\ state = "Running"
    /\ rx = <<>>
    /\ txOpen = TRUE
    /\ pool = <<>>
    /\ open = {}
    /\ stale = {}
    /\ ev = NoEvent
    /\ result = "None"
    /\ written = <<>>
    /\ wire = <<>>

\* ----------------------------------------------------------- environment
\* The server thread parses one editor command and sends it on the channel.
Send ==
    /\ txOpen
    /\ Len(rx) < MaxQueue
    /\ \E e \in Items : rx' = Append(rx, e)
    /\ UNCHANGED <<state, txOpen, pool, open, stale, ev, result, written, wire>>

\* The server thread ends and drops the sending half of the channel.
Close ==
    /\ txOpen
    /\ txOpen' = FALSE
    /\ UNCHANGED <<state, rx, pool, open, stale, ev, result, written, wire>>

\* The backend behind an open socket goes away.
BackendDies ==
    /\ \E s \in open \ stale : stale' = stale \cup {s}
    /\ UNCHANGED <<state, rx, txOpen, pool, open, ev, result, written, wire>>

\* ------------------------------------------------------------ event loop
\* Pulled that takes the newest item off the channel instead of the oldest.
Pulled_newest(type) ==
    /\ state = "Running"
    /\ rx # <<>>
    /\ rx[Len(rx)].type = type
    /\ Head(rx).type = type
    /\ rx' = SubSeq(rx, 1, Len(rx) - 1)
    /\ ev' = rx[Len(rx)]
    /\ UNCHANGED txOpen

\* The loop of start has pulled Head(rx) and matches on it.
Pulled(type) ==
    /\ state = "Running"
    /\ rx # <<>>
    /\ Head(rx).type = type
    /\ rx' = Tail(rx)
    /\ ev' = Head(rx)
    /\ UNCHANGED txOpen

\* Quit that goes on with the loop (continue where the code has break).
Quit_continue ==
    /\ Pulled("Quit")
    /\ state' = "Running"
    /\ result' = "None"
    /\ written' = <<>>
    /\ wire' = <<>>
    /\ UNCHANGED <<pool, open, stale>>

Quit ==
    /\ Pulled("Quit")
    /\ state' = "Terminated"
    /\ result' = "None"
    /\ written' = <<>>
    /\ wire' = <<>>
    /\ UNCHANGED <<pool, open, stale>>

\* Exhausted that keeps waiting on the channel after its sending half is
\* gone (as recv would on a channel whose sender the loop itself holds).
Exhausted_waits ==
    /\ state = "Running"
    /\ rx = <<>>
    /\ ~txOpen
    /\ UNCHANGED vars

\* rx.iter() ends: the channel is empty and its sending half is gone.
Exhausted ==
    /\ state = "Running"
    /\ rx = <<>>
    /\ ~txOpen
    /\ state' = "Terminated"
    /\ UNCHANGED <<rx, txOpen, pool, open, stale, ev, result, written, wire>>

\* ParseError that drops the message instead of writing it.
ParseError_silent ==
    /\ Pulled("Err")
    /\ written' = <<>>
    /\ result' = "None"
    /\ wire' = <<>>
    /\ UNCHANGED <<state, pool, open, stale>>

ParseError ==
    /\ Pulled("Err")
    /\ written' = <<ErrLine(<<"Error parsing command: ", Head(rx).msg>>)>>
    /\ result' = "None"
    /\ wire' = <<>>
    /\ UNCHANGED <<state, pool, open, stale>>

ListLines(p) ==
    [i \in DOMAIN p |->
        LogLine(<<";; [", p[i].key, "] ", p[i].addr,
                  " for files matching '", p[i].expr, "'">>)]

\* handle_list with the test of has_connections inverted.
handle_list_inverted ==
    /\ Pulled("List")
    /\ written' = IF ~has_connections(pool)
                  THEN ListLines(pool)
                  ELSE <<LogLine(<<";; No connections">>)>>
    /\ result' = "None"
    /\ wire' = <<>>
    /\ UNCHANGED <<state, pool, open, stale>>

\* handle_list that walks the pool from its newest connection to its oldest.
handle_list_reversed ==
    /\ Pulled("List")
    /\ written' = IF has_connections(pool)
                  THEN [i \in DOMAIN pool |-> ListLines(pool)[Len(pool) + 1 - i]]
                  ELSE <<LogLine(<<";; No connections">>)>>
    /\ result' = "None"
    /\ wire' = <<>>
    /\ UNCHANGED <<state, pool, open, stale>>

handle_list ==
    /\ Pulled("List")
    /\ written' = IF has_connections(pool)
                  THEN ListLines(pool)
                  ELSE <<LogLine(<<";; No connections">>)>>
    /\ result' = "None"
    /\ wire' = <<>>
    /\ UNCHANGED <<state, pool, open, stale>>

\* handle_show_log that gives up the loop when the log window cannot be shown.
handle_show_log_fatal ==
    /\ Pulled("ShowLog")
    /\ \E r \in {"Ok", "SinkError"} :
        /\ result' = r
        /\ written' = <<>>
        /\ state' = IF r # "Ok" THEN "Terminated" ELSE state
    /\ wire' = <<>>
    /\ UNCHANGED <<pool, open, stale>>

handle_show_log ==
    /\ Pulled("ShowLog")
    /\ \E r \in {"Ok", "SinkError"} :
        /\ result' = r
        /\ written' = IF r # "Ok"
                      THEN <<ErrLine(<<"Failed to show the log window: ", r>>)>>
                      ELSE <<>>
    /\ wire' = <<>>
    /\ UNCHANGED <<state, pool, open, stale>>

ConnectLines(key, res) ==
    IF res # "Ok"
    THEN <<ErrLine(<<"[", key, "] Connection error: ", res>>)>>
    ELSE <<LogLine(<<";; [", key, "] Loading conjure.repl...">>)>>

\* handle_connect that drops a connection already held under the key and
\* connects again (replace on reconnect).
handle_connect_replace ==
    /\ Pulled("Connect")
    /\ \E reachable \in BOOLEAN :
        LET e == Head(rx)
            d == pool_disconnect(pool, open, e.key)
            r == pool_connect(d.pool, d.open, e.key, e.addr, e.expr, reachable)
        IN  /\ pool' = r.pool
            /\ open' = r.open
            /\ stale' = stale \cap d.open
            /\ result' = r.res
            /\ written' = ConnectLines(e.key, r.res)
    /\ wire' = <<>>
    /\ UNCHANGED state

\* handle_connect without the else: the informational line is written
\* after the error line too.
handle_connect_both ==
    /\ Pulled("Connect")
    /\ \E reachable \in BOOLEAN :
        LET e == Head(rx)
            r == pool_connect(pool, open, e.key, e.addr, e.expr, reachable)
        IN  /\ pool' = r.pool
            /\ open' = r.open
            /\ result' = r.res
            /\ written' = IF r.res # "Ok"
                          THEN ConnectLines(e.key, r.res) \o ConnectLines(e.key, "Ok")
                          ELSE ConnectLines(e.key, "Ok")
    /\ wire' = <<>>
    /\ UNCHANGED <<state, stale>>

handle_connect ==
    /\ Pulled("Connect")
    /\ \E reachable \in BOOLEAN :
        LET e == Head(rx)
            r == pool_connect(pool, open, e.key, e.addr, e.expr, reachable)
        IN  /\ pool' = r.pool
            /\ open' = r.open
            /\ result' = r.res
            /\ written' = ConnectLines(e.key, r.res)
    /\ wire' = <<>>
    /\ UNCHANGED <<state, stale>>

DisconnectLines(key, res) ==
    IF res # "Ok"
    THEN <<ErrLine(<<"[", key, "] Disconnection error: ", res>>)>>
    ELSE <<LogLine(<<";; [", key, "] Disconnected">>)>>

\* handle_disconnect with the branches of its if let exchanged.
handle_disconnect_inverted ==
    /\ Pulled("Disconnect")
    /\ LET e == Head(rx)
           r == pool_disconnect(pool, open, e.key)
       IN  /\ pool' = r.pool
           /\ open' = r.open
           /\ stale' = stale \cap r.open
           /\ result' = r.res
           /\ written' = DisconnectLines(e.key, IF r.res = "Ok" THEN "Error" ELSE "Ok")
    /\ wire' = <<>>
    /\ UNCHANGED state

handle_disconnect ==
    /\ Pulled("Disconnect")
    /\ LET e == Head(rx)
           r == pool_disconnect(pool, open, e.key)
       IN  /\ pool' = r.pool
           /\ open' = r.open
           /\ stale' = stale \cap r.open
           /\ result' = r.res
           /\ written' = DisconnectLines(e.key, r.res)
    /\ wire' = <<>>
    /\ UNCHANGED state

EvalLines(res) ==
    IF res # "Ok" THEN <<ErrLine(<<"Eval error: ", res>>)>> ELSE <<>>

\* handle_eval that throws the result of Pool::eval away.
handle_eval_discard ==
    /\ Pulled("Eval")
    /\ LET e == Head(rx)
           r == pool_eval(pool, stale, e.code, e.path)
       IN  /\ result' = r.res
           /\ wire' = r.wire
           /\ written' = <<>>
    /\ UNCHANGED <<state, pool, open, stale>>

\* handle_eval that hands path and code to Pool::eval in the wrong order.
handle_eval_swapped ==
    /\ Pulled("Eval")
    /\ LET e == Head(rx)
           r == pool_eval(pool, stale, e.path, e.code)
       IN  /\ result' = r.res
           /\ wire' = r.wire
           /\ written' = EvalLines(r.res)
    /\ UNCHANGED <<state, pool, open, stale>>

\* handle_eval that drops the connection whose socket turned out stale.
handle_eval_evict ==
    /\ Pulled("Eval")
    /\ LET e == Head(rx)
           r == pool_eval(pool, stale, e.code, e.path)
           d == IF r.res = "ConnectionUnavailable"
                THEN pool_disconnect(pool, open, pool[FirstMatch(pool, e.path)].key)
                ELSE [res |-> "Ok", pool |-> pool, open |-> open]
       IN  /\ result' = r.res
           /\ wire' = r.wire
           /\ written' = EvalLines(r.res)
           /\ pool' = d.pool
           /\ open' = d.open
           /\ stale' = stale \cap d.open
    /\ UNCHANGED state

handle_eval ==
    /\ Pulled("Eval")
    /\ LET e == Head(rx)
           r == pool_eval(pool, stale, e.code, e.path)
       IN  /\ result' = r.res
           /\ wire' = r.wire
           /\ written' = EvalLines(r.res)
    /\ UNCHANGED <<state, pool, open, stale>>

DocLines(res) ==
    IF res # "Ok" THEN <<ErrLine(<<"Doc error: ", res>>)>> ELSE <<>>

\* handle_doc that hands path and name to Pool::doc in the wrong order.
handle_doc_swapped ==
    /\ Pulled("Doc")
    /\ LET e == Head(rx)
           r == pool_doc(pool, stale, e.path, e.name)
       IN  /\ result' = r.res
           /\ wire' = r.wire
           /\ written' = DocLines(r.res)
    /\ UNCHANGED <<state, pool, open, stale>>

\* handle_doc that reports the outcome on the sink whether the call failed
\* or not.
handle_doc_noisy ==
    /\ Pulled("Doc")
    /\ LET e == Head(rx)
           r == pool_doc(pool, stale, e.name, e.path)
       IN  /\ result' = r.res
           /\ wire' = r.wire
           /\ written' = <<ErrLine(<<"Doc error: ", r.res>>)>>
    /\ UNCHANGED <<state, pool, open, stale>>

handle_doc ==
    /\ Pulled("Doc")
    /\ LET e == Head(rx)
           r == pool_doc(pool, stale, e.name, e.path)
       IN  /\ result' = r.res
           /\ wire' = r.wire
           /\ written' = DocLines(r.res)
    /\ UNCHANGED <<state, pool, open, stale>>

Next ==
    \/ Send
    \/ Close
    \/ BackendDies
    \/ Quit
    \/ Exhausted
    \/ ParseError
    \/ handle_list
    \/ handle_show_log
    \/ handle_connect
    \/ handle_disconnect
    \/ handle_eval
    \/ handle_doc

\* One turn of the loop of start: the match on a pulled item, or the end of
\* rx.iter().
LoopStep ==
    \/ Quit
    \/ Exhausted
    \/ ParseError
    \/ handle_list
    \/ handle_show_log
    \/ handle_connect
    \/ handle_disconnect
    \/ handle_eval
    \/ handle_doc

Spec == Init /\ [][Next]_vars

\* ------------------------------------------------- a channel with a backlog
\* The same loop fed from fewer distinct commands, so that more of them can
\* wait in the channel at once.
MaxBacklog == 2

BacklogItems ==
    {[type |-> "Quit"], [type |-> "List"], [type |-> "ShowLog"],
     [type |-> "Connect", key |-> "a", addr |-> "127.0.0.1:7890", expr |-> "."],
     [type |-> "Connect", key |-> "b", addr |-> "127.0.0.1:7891", expr |-> "\\.clj$"],
     [type |-> "Disconnect", key |-> "a"],
     [type |-> "Eval", code |-> "(+ 1 2)", path |-> "foo.clj"],
     [type |-> "Doc", name |-> "map", path |-> "foo.clj"],
     [type |-> "Err", msg |-> "bad command"]}

SendBacklog ==
    /\ txOpen
    /\ Len(rx) < MaxBacklog
    /\ \E e \in BacklogItems : rx' = Append(rx, e)
    /\ UNCHANGED <<state, txOpen, pool, open, stale, ev, result, written, wire>>

NextBacklog ==
    \/ SendBacklog
    \/ Close
    \/ BackendDies
    \/ LoopStep

SpecBacklog == Init /\ [][NextBacklog]_vars

\* The loop thread is scheduled whenever it has an item to take or the end of
\* the channel to see, and every call it makes returns.
FairSpecBacklog == SpecBacklog /\ WF_vars(LoopStep)

\* ------------------------------------------------- calls that do not return
\* The handlers above are the calls into the pool that return at once.  A
\* call towards a slow backend does not: the loop thread stays inside
\* Pool::eval, Pool::doc or Pool::connect ("InCall") until the transport
\* returns or errors, and start pulls nothing meanwhile.
EnterCall(type) ==
    /\ state = "Running"
    /\ rx # <<>>
    /\ Head(rx).type = type
    /\ rx' = Tail(rx)
    /\ ev' = Head(rx)
    /\ state' = "InCall"
    /\ result' = "Pending"
    /\ written' = <<>>
    /\ wire' = <<>>
    /\ UNCHANGED <<txOpen, pool, open, stale>>

\* handle_eval, up to its call of Pool::eval towards a backend that is slow.
handle_eval_blocks ==
    /\ EnterCall("Eval")
    /\ FirstMatch(pool, Head(rx).path) # 0
    /\ pool[FirstMatch(pool, Head(rx).path)].sock \notin stale

\* handle_doc, up to its call of Pool::doc towards a backend that is slow.
handle_doc_blocks ==
    /\ EnterCall("Doc")
    /\ FirstMatch(pool, Head(rx).path) # 0
    /\ pool[FirstMatch(pool, Head(rx).path)].sock \notin stale

\* handle_connect, up to its call of Pool::connect to an address that is slow
\* to answer.
handle_connect_blocks ==
    /\ EnterCall("Connect")
    /\ Head(rx).key \notin PoolKeys(pool)

\* The rest of handle_eval: the transport returned, or it errored and the
\* socket is of no use any more.
handle_eval_returns ==
    /\ state = "InCall"
    /\ ev.type = "Eval"
    /\ \E errored \in BOOLEAN :
        LET st == IF errored
                  THEN stale \cup {pool[FirstMatch(pool, ev.path)].sock}
                  ELSE stale
            r == pool_eval(pool, st, ev.code, ev.path)
        IN  /\ stale' = st
            /\ result' = r.res
            /\ wire' = r.wire
            /\ written' = EvalLines(r.res)
    /\ state' = "Running"
    /\ UNCHANGED <<rx, txOpen, pool, open, ev>>

\* The rest of handle_doc.
handle_doc_returns ==
    /\ state = "InCall"
    /\ ev.type = "Doc"
    /\ \E errored \in BOOLEAN :
        LET st == IF errored
                  THEN stale \cup {pool[FirstMatch(pool, ev.path)].sock}
                  ELSE stale
            r == pool_doc(pool, st, ev.name, ev.path)
        IN  /\ stale' = st
            /\ result' = r.res
            /\ wire' = r.wire
            /\ written' = DocLines(r.res)
    /\ state' = "Running"
    /\ UNCHANGED <<rx, txOpen, pool, open, ev>>

\* The rest of handle_connect.
handle_connect_returns ==
    /\ state = "InCall"
    /\ ev.type = "Connect"
    /\ \E reachable \in BOOLEAN :
        LET r == pool_connect(pool, open, ev.key, ev.addr, ev.expr, reachable)
        IN  /\ pool' = r.pool
            /\ open' = r.open
            /\ result' = r.res
            /\ written' = ConnectLines(ev.key, r.res)
    /\ wire' = <<>>
    /\ state' = "Running"
    /\ UNCHANGED <<rx, txOpen, stale, ev>>

NextHang ==
    \/ Send
    \/ Close
    \/ BackendDies
    \/ LoopStep
    \/ handle_eval_blocks
    \/ handle_doc_blocks
    \/ handle_connect_blocks
    \/ handle_eval_returns
    \/ handle_doc_returns
    \/ handle_connect_returns

SpecHang == Init /\ [][NextHang]_vars

\* ---------------------------------------------------------------- claims
\* The step in which the loop of start handles the item Head(rx) of the
\* given type.  No other step takes the head off a non-empty channel.
Dispatching(type) ==
    /\ state = "Running"
    /\ rx # <<>>
    /\ Head(rx).type = type
    /\ rx' = Tail(rx)

\* What list() yields: the keys of the pool in iteration order.
ListKeys(p) == [i \in DOMAIN p |-> p[i].key]

\* C1: the loop leaves Running only in a step that handles a Quit event or
\* that finds the channel empty with its sending half gone; a step that
\* handles any other item, whatever its call returns, leaves it Running.
C1_OnlyQuitOrExhaustion ==
    [][(state = "Running" /\ state' = "Terminated")
        => \/ Dispatching("Quit")
           \/ (rx = <<>> /\ ~txOpen /\ rx' = rx)]_vars

\* A failed show-log call has been handled and the loop is still Running.
C1_Witness ==
    /\ state = "Running"
    /\ ev.type = "ShowLog"
    /\ result = "SinkError"

\* C2: handling an unparseable item writes exactly one line, an error line,
\* and changes neither the loop state nor the registry nor any socket, and
\* transmits nothing; the loop can go on with the next item.
C2_MalformedOneErrorLine ==
    [][Dispatching("Err")
        => /\ Len(written') = 1
           /\ written'[1].chan = "err"
           /\ written'[1].text = <<"Error parsing command: ", Head(rx).msg>>
           /\ state' = "Running"
           /\ pool' = pool
           /\ open' = open
           /\ stale' = stale
           /\ wire' = <<>>]_vars

\* An unparseable item has been handled while the registry held a connection.
C2_Witness ==
    /\ ev.type = "Err"
    /\ state = "Running"
    /\ Len(pool) > 0
    /\ Len(written) = 1

\* C3: a Connect for a key that is in the registry fails with DuplicateKey,
\* is reported as such on the sink, and leaves the registry (the address,
\* rule, position and socket of every entry) and the open sockets as they were.
C3_DuplicateKeyKeepsOriginal ==
    [][(Dispatching("Connect") /\ Head(rx).key \in PoolKeys(pool))
        => /\ result' = "DuplicateKey"
           /\ pool' = pool
           /\ open' = open
           /\ stale' = stale
           /\ written' = <<ErrLine(<<"[", Head(rx).key, "] Connection error: ",
                                     "DuplicateKey">>)>>]_vars

\* A Connect was rejected as DuplicateKey, and the entry of its key still
\* has another address and another rule than the rejected call gave.
C3_Witness ==
    /\ ev.type = "Connect"
    /\ result = "DuplicateKey"
    /\ \E i \in DOMAIN pool :
        /\ pool[i].key = ev.key
        /\ pool[i].addr # ev.addr
        /\ pool[i].expr # ev.expr
        /\ pool[i].sock \in open

\* C4: a Disconnect for a key that is not in the registry fails with
\* UnknownKey, is reported as such on the sink, and leaves the registry and
\* the open sockets as they were.
C4_UnknownKeyChangesNothing ==
    [][(Dispatching("Disconnect") /\ Head(rx).key \notin PoolKeys(pool))
        => /\ result' = "UnknownKey"
           /\ pool' = pool
           /\ open' = open
           /\ stale' = stale
           /\ written' = <<ErrLine(<<"[", Head(rx).key, "] Disconnection error: ",
                                     "UnknownKey">>)>>]_vars

\* A Disconnect was rejected as UnknownKey while the other key was connected.
C4_Witness ==
    /\ ev.type = "Disconnect"
    /\ result = "UnknownKey"
    /\ Len(pool) = 1
    /\ pool[1].key # ev.key

\* C5: a Disconnect for a key that is in the registry succeeds, takes the
\* key out of what list() yields and closes its socket; and a Connect for a
\* key that is not in the registry is never rejected as DuplicateKey and,
\* when it succeeds, puts the key last in the insertion order on a socket
\* that is open.
C5_DisconnectThenReconnect ==
    [][/\ (Dispatching("Disconnect") /\ Head(rx).key \in PoolKeys(pool))
           => /\ result' = "Ok"
              /\ Head(rx).key \notin PoolKeys(pool')
              /\ Len(pool') = Len(pool) - 1
              /\ pool[IndexOfKey(pool, Head(rx).key)].sock \notin open'
       /\ (Dispatching("Connect") /\ Head(rx).key \notin PoolKeys(pool))
           => /\ result' # "DuplicateKey"
              /\ result' = "Ok"
                  => /\ Len(pool') = Len(pool) + 1
                     /\ pool'[Len(pool')].key = Head(rx).key
                     /\ pool'[Len(pool')].sock \in open'
                     /\ SubSeq(pool', 1, Len(pool)) = pool]_vars

\* A key was connected again after its disconnect: it stands last, behind a
\* key that was connected later than its first connection.  Sockets are
\* handed out lowest first, so the last entry holding a lower socket than
\* the first one shows the socket was released in between.
C5_Witness ==
    /\ ev.type = "Connect"
    /\ result = "Ok"
    /\ Len(pool) = 2
    /\ pool[2].key = ev.key
    /\ pool[2].sock < pool[1].sock

\* C6 as stated: every Connect for a key that is not in the registry
\* succeeds and appends its key to what list() yields.
C6_Original ==
    [][(Dispatching("Connect") /\ Head(rx).key \notin PoolKeys(pool))
        => /\ result' = "Ok"
           /\ ListKeys(pool') = Append(ListKeys(pool), Head(rx).key)]_vars

\* C6 as amended: a Connect for a key that is not in the registry fails only
\* as Unreachable, and then leaves the registry as it was; when it succeeds
\* it appends its key to what list() yields; and a List event writes the
\* keys of the registry once each, in that order.
C6_DistinctKeysInCallOrder ==
    [][/\ (Dispatching("Connect") /\ Head(rx).key \notin PoolKeys(pool))
           => /\ result' \in {"Ok", "Unreachable"}
              /\ result' = "Ok"
                  => ListKeys(pool') = Append(ListKeys(pool), Head(rx).key)
              /\ result' = "Unreachable" => pool' = pool
       /\ (Dispatching("List") /\ Len(pool) > 0)
           => /\ Len(written') = Len(pool)
              /\ \A i \in DOMAIN pool : written'[i].text[2] = ListKeys(pool)[i]]_vars

\* Two Connects with distinct keys succeeded and a List event wrote both.
C6_Witness ==
    /\ ev.type = "List"
    /\ Len(pool) = 2
    /\ Len(written) = 2
    /\ written[1].text[2] # written[2].text[2]

\* C7: an Eval whose path no rule of the registry matches fails with
\* NoMatch, is reported as such on the sink, and transmits nothing.
C7_NoMatchSendsNothing ==
    [][(Dispatching("Eval")
            /\ \A i \in DOMAIN pool : ~Matches(pool[i].expr, Head(rx).path))
        => /\ result' = "NoMatch"
           /\ wire' = <<>>
           /\ written' = <<ErrLine(<<"Eval error: ", "NoMatch">>)>>]_vars

\* An Eval failed with NoMatch in a registry that holds connections.
C7_Witness ==
    /\ ev.type = "Eval"
    /\ result = "NoMatch"
    /\ Len(pool) = 2
    /\ wire = <<>>

\* The first position of the registry whose rule matches the path, 0 if none.
EarliestMatch(p, path) ==
    IF \E i \in DOMAIN p : Matches(p[i].expr, path)
    THEN CHOOSE i \in DOMAIN p :
            /\ Matches(p[i].expr, path)
            /\ \A j \in 1..(i - 1) : ~Matches(p[j].expr, path)
    ELSE 0

\* C8 as stated: an Eval whose path some rule matches transmits its code
\* exactly once, to the earliest entry of the registry whose rule matches.
C8_Original ==
    [][(Dispatching("Eval") /\ EarliestMatch(pool, Head(rx).path) # 0)
        => /\ Len(wire') = 1
           /\ wire'[1].sock = pool[EarliestMatch(pool, Head(rx).path)].sock
           /\ wire'[1].text = Head(rx).code]_vars

\* C8 as amended: an Eval whose path some rule matches transmits at most
\* once and never to another entry than the earliest one whose rule matches;
\* it transmits its code to that entry exactly when the socket of that entry
\* is usable, and otherwise fails with ConnectionUnavailable.
C8_FirstMatchWins ==
    [][(Dispatching("Eval") /\ EarliestMatch(pool, Head(rx).path) # 0)
        => LET c == pool[EarliestMatch(pool, Head(rx).path)]
           IN  /\ Len(wire') <= 1
               /\ \A i \in DOMAIN wire' :
                    /\ wire'[i].sock = c.sock
                    /\ wire'[i].key = c.key
                    /\ wire'[i].kind = "eval"
                    /\ wire'[i].text = Head(rx).code
               /\ c.sock \notin stale => (Len(wire') = 1 /\ result' = "Ok")
               /\ c.sock \in stale
                    => (wire' = <<>> /\ result' = "ConnectionUnavailable")]_vars

\* An Eval that two rules match went to the first entry, and that entry is
\* a key that was disconnected and connected again after the other one.
C8_Witness ==
    /\ ev.type = "Eval"
    /\ result = "Ok"
    /\ Len(pool) = 2
    /\ Matches(pool[1].expr, ev.path)
    /\ Matches(pool[2].expr, ev.path)
    /\ Len(wire) = 1
    /\ wire[1].key = pool[1].key
    /\ pool[2].sock < pool[1].sock

\* C9: no two entries of the registry have the same key.
C9_KeysUnique ==
    \A i \in DOMAIN pool : \A j \in DOMAIN pool :
        pool[i].key = pool[j].key => i = j

\* A Connect for a key already in a registry of two entries was handled.
C9_Witness ==
    /\ ev.type = "Connect"
    /\ ev.key \in PoolKeys(pool)
    /\ result = "DuplicateKey"
    /\ Len(pool) = 2

NoConnectionsLine == [chan |-> "log", tag |-> "Conjure", text |-> <<";; No connections">>]

\* C10: a List event writes the "no connections" line alone when the
\* registry is empty; otherwise it writes one line for each entry, in
\* insertion order, carrying the key, address and rule of that entry, none
\* of them the "no connections" line.  The loop stays Running either way.
C10_ListOutput ==
    [][Dispatching("List")
        => /\ state' = "Running"
           /\ pool = <<>> => written' = <<NoConnectionsLine>>
           /\ pool # <<>>
                => /\ Len(written') = Len(pool)
                   /\ \A i \in DOMAIN pool :
                        /\ written'[i] # NoConnectionsLine
                        /\ written'[i].chan = "log"
                        /\ written'[i].text =
                            <<";; [", pool[i].key, "] ", pool[i].addr,
                              " for files matching '", pool[i].expr, "'">>]_vars

\* A List event was handled in a registry of two entries.
C10_Witness ==
    /\ ev.type = "List"
    /\ Len(pool) = 2
    /\ Len(written) = 2
    /\ written[1].text[2] = pool[1].key
    /\ written[2].text[2] = pool[2].key

\* C11: the step that handles a Quit event makes the loop Terminated, takes
\* that event alone off the channel, and neither touches the registry nor
\* writes or transmits anything; from a Terminated loop no step takes an item off the channel, changes the
\* registry or its sockets, transmits or writes a line, or makes the loop
\* Running again; items sent after the Quit stay in the channel.
C11_QuitTerminatesForGood ==
    [][/\ (state = "Running" /\ rx # <<>> /\ Head(rx).type = "Quit" /\ ev' # ev)
            => state' = "Terminated"
       /\ (state = "Running" /\ rx # <<>> /\ Head(rx).type = "Quit" /\ ev' # ev)
            => (pool' = pool /\ open' = open /\ wire' = <<>> /\ written' = <<>>
                /\ rx' = Tail(rx))
       /\ state = "Terminated"
            => /\ state' = "Terminated"
               /\ pool' = pool
               /\ open' = open
               /\ ev' = ev
               /\ result' = result
               /\ written' = written
               /\ wire' = wire
               /\ Len(rx') >= Len(rx)
               /\ SubSeq(rx', 1, Len(rx)) = rx]_vars

\* The loop ended on a Quit that had another item waiting behind it, and
\* one more was sent since: both are still in the channel.
C11_Witness ==
    /\ state = "Terminated"
    /\ ev.type = "Quit"
    /\ Len(rx) = 2
    /\ rx[1].type = "Connect"
    /\ pool = <<>>
    /\ written = <<>>

\* C12: every step in which an item is handled (the registry, its sockets,
\* the lines written, the requests transmitted or the item handled last
\* change) takes exactly the oldest item off the channel, leaves the other
\* items in their order, and handles that item alone: the key its lines and
\* its registry change carry is the key of that item.
C12_ArrivalOrderOneAtATime ==
    [][(<<ev, result, written, wire, pool, open>>' # <<ev, result, written, wire, pool, open>>)
        => /\ state = "Running"
           /\ rx # <<>>
           /\ rx' = Tail(rx)
           /\ ev' = Head(rx)
           /\ Head(rx).type \in {"Connect", "Disconnect"}
                => /\ Len(written') = 1
                   /\ written'[1].text[2] = Head(rx).key
                   /\ \A k \in KEYS \ {Head(rx).key} :
                        k \in PoolKeys(pool') <=> k \in PoolKeys(pool)
           /\ Head(rx).type \notin {"Connect", "Disconnect"} => pool' = pool]_vars

\* The Connect of key b was handled while a later item waited behind it, after
\* the Connect of key a that had arrived first.
C12_Witness ==
    /\ ev.type = "Connect"
    /\ ev.key = "b"
    /\ result = "Ok"
    /\ Len(pool) = 2
    /\ pool[1].key = "a"
    /\ Len(rx) = 2
    /\ written[1].text[2] = "b"

\* The key of the connection a pending call is directed to.
CallKey ==
    IF ev.type = "Connect" THEN ev.key
    ELSE pool[FirstMatch(pool, ev.path)].key

\* The item is directed to a connection of another key than k.
TargetsOther(item, k) ==
    \/ item.type \in {"Connect", "Disconnect"} /\ item.key # k
    \/ /\ item.type \in {"Eval", "Doc"}
       /\ FirstMatch(pool, item.path) # 0
       /\ pool[FirstMatch(pool, item.path)].key # k

\* A step of start that takes an item off the channel.
PullStep ==
    \/ LoopStep
    \/ handle_eval_blocks
    \/ handle_doc_blocks
    \/ handle_connect_blocks

\* C13 as stated: while a connect, eval or doc call towards the connection
\* of one key has not returned, the loop can handle an item waiting in the
\* channel that is directed to the connection of another key.
C13_SlowBackendDoesNotBlock ==
    (/\ state = "InCall"
     /\ rx # <<>>
     /\ TargetsOther(Head(rx), CallKey))
        => ENABLED PullStep

\* The sockets the entries of the registry hold.
OwnedSocks(p) == {p[i].sock : i \in DOMAIN p}

\* C14: the open sockets are always exactly the sockets the entries of the
\* registry hold, one for each entry; a socket is opened only by a Connect
\* that succeeds and closed only by a Disconnect that succeeds, which closes
\* the socket of its key; a Connect that fails opens none.
C14_RegistryOwnsOpenSockets ==
    /\ [](/\ open = OwnedSocks(pool)
          /\ \A i \in DOMAIN pool : \A j \in DOMAIN pool :
                pool[i].sock = pool[j].sock => i = j)
    /\ [][/\ open' # open
            => \/ /\ Dispatching("Connect")
                  /\ result' = "Ok"
                  /\ open \subseteq open'
                  /\ open' \ open = {pool'[Len(pool')].sock}
               \/ /\ Dispatching("Disconnect")
                  /\ result' = "Ok"
                  /\ open' = open \ {pool[IndexOfKey(pool, Head(rx).key)].sock}
          /\ (Dispatching("Connect") /\ result' # "Ok") => open' = open]_vars

\* A Connect failed as Unreachable beside a connection that stays the one
\* owner of the one open socket.
C14_Witness ==
    /\ ev.type = "Connect"
    /\ result = "Unreachable"
    /\ Len(pool) = 1
    /\ open = {pool[1].sock}
    /\ ev.key # pool[1].key

\* The routing and failure contract of a request of the given kind: the
\* earliest entry whose rule matches the path is the target; NoMatch without
\* a target, ConnectionUnavailable when the socket of the target is stale,
\* and otherwise one request of that kind to the target.
RoutingContract(kind, text, path) ==
    LET i == EarliestMatch(pool, path)
    IN  /\ i = 0 => (result' = "NoMatch" /\ wire' = <<>>)
        /\ (i # 0 /\ pool[i].sock \in stale)
            => (result' = "ConnectionUnavailable" /\ wire' = <<>>)
        /\ (i # 0 /\ pool[i].sock \notin stale)
            => /\ result' = "Ok"
               /\ wire' = <<[sock |-> pool[i].sock, key |-> pool[i].key,
                             kind |-> kind, text |-> text]>>

\* C15: an Eval and a Doc meet the same routing and failure contract for
\* their path in every state of the registry; they differ in the kind of
\* the request transmitted (and in what it carries: the code, the name).
C15_DocRoutesLikeEval ==
    [][/\ Dispatching("Eval")
            => RoutingContract("eval", Head(rx).code, Head(rx).path)
       /\ Dispatching("Doc")
            => RoutingContract("doc", Head(rx).name, Head(rx).path)]_vars

\* A Doc that two rules match went to the first entry as a doc request.
C15_Witness ==
    /\ ev.type = "Doc"
    /\ result = "Ok"
    /\ Len(pool) = 2
    /\ Matches(pool[1].expr, ev.path)
    /\ Matches(pool[2].expr, ev.path)
    /\ wire = <<[sock |-> pool[1].sock, key |-> pool[1].key,
                 kind |-> "doc", text |-> ev.name]>>

\* C16: handling a Connect or a Disconnect writes exactly one line and
\* leaves the loop Running: an informational line for the key when the call
\* succeeded, an error line carrying the key and the failure when it failed.
C16_OneLinePerConnectDisconnect ==
    [][\A t \in {"Connect", "Disconnect"} :
        Dispatching(t)
            => /\ state' = "Running"
               /\ Len(written') = 1
               /\ written'[1].text[2] = Head(rx).key
               /\ result' = "Ok" => written'[1].chan = "log"
               /\ result' # "Ok"
                    => /\ written'[1].chan = "err"
                       /\ written'[1].text[Len(written'[1].text)] = result']_vars

\* A Disconnect succeeded and wrote its one informational line.
C16_Witness ==
    /\ ev.type = "Disconnect"
    /\ result = "Ok"
    /\ Len(written) = 1
    /\ written[1].chan = "log"
    /\ written[1].text[2] = ev.key
    /\ state = "Running"

\* C17: handling an Eval or a Doc leaves the loop Running; it writes nothing
\* when the call succeeded, and when it failed (NoMatch or
\* ConnectionUnavailable) exactly one error line that names the failure and
\* no key.
C17_EvalDocErrorLine ==
    [][\A t \in {"Eval", "Doc"} :
        Dispatching(t)
            => /\ state' = "Running"
               /\ result' \in {"Ok", "NoMatch", "ConnectionUnavailable"}
               /\ result' = "Ok" => written' = <<>>
               /\ result' # "Ok"
                    => /\ Len(written') = 1
                       /\ written'[1].chan = "err"
                       /\ written'[1].text =
                            <<IF t = "Eval" THEN "Eval error: " ELSE "Doc error: ",
                              result'>>
                       /\ \A j \in DOMAIN written'[1].text :
                            written'[1].text[j] \notin KEYS]_vars

\* A Doc failed on a stale socket and wrote its one error line.
C17_Witness ==
    /\ ev.type = "Doc"
    /\ result = "ConnectionUnavailable"
    /\ Len(written) = 1
    /\ written[1].chan = "err"
    /\ state = "Running"

\* C18: a Connect for a key that is not in the registry fails only as
\* Unreachable, never as DuplicateKey, and a Connect that fails as
\* Unreachable inserts nothing and opens no socket, so its key is still free;
\* and Pool::connect to an address that cannot be reached is Unreachable and
\* changes nothing, for every key that is free.
C18_UnreachableInsertsNothing ==
    /\ [](\A k \in KEYS \ PoolKeys(pool) : \A a \in ADDRS : \A x \in EXPRS :
            pool_connect(pool, open, k, a, x, FALSE)
                = [res |-> "Unreachable", pool |-> pool, open |-> open])
    /\ [][(Dispatching("Connect") /\ Head(rx).key \notin PoolKeys(pool))
            => /\ result' \in {"Ok", "Unreachable"}
               /\ result' = "Unreachable"
                    => /\ pool' = pool
                       /\ open' = open
                       /\ Head(rx).key \notin PoolKeys(pool')]_vars

\* A Connect failed as Unreachable and its key is not in the registry, which
\* holds the other key as before.
C18_Witness ==
    /\ ev.type = "Connect"
    /\ result = "Unreachable"
    /\ ev.key \notin PoolKeys(pool)
    /\ Len(pool) = 1
    /\ Len(written) = 1
    /\ written[1].chan = "err"

\* C19: handling a List, a ShowLog, an Eval, a Doc or an unparseable item
\* leaves the registry and its sockets as they were, whatever the call
\* returned; an Eval or Doc that fails on a stale socket keeps the stale
\* entry, and a Connect for its key is still rejected as DuplicateKey.
C19_ReadOnlyEvents ==
    [][/\ \A t \in {"List", "ShowLog", "Eval", "Doc", "Err"} :
            Dispatching(t) => (pool' = pool /\ open' = open /\ stale' = stale)
       /\ (Dispatching("Connect")
            /\ \E i \in DOMAIN pool :
                pool[i].key = Head(rx).key /\ pool[i].sock \in stale)
            => result' = "DuplicateKey"]_vars

\* An Eval failed on the stale socket of the entry it was routed to, and
\* that entry is still in the registry.
C19_Witness ==
    /\ ev.type = "Eval"
    /\ result = "ConnectionUnavailable"
    /\ EarliestMatch(pool, ev.path) # 0
    /\ pool[EarliestMatch(pool, ev.path)].sock \in stale
    /\ pool[EarliestMatch(pool, ev.path)].sock \in open

\* C20: when every call returns, a loop whose channel holds a Quit event,
\* and a loop whose channel has lost its sending half, become Terminated in
\* the end; and the loop ends without a Quit only on an empty channel, so
\* the items sent before the channel was closed are handled first.
C20_EventuallyTerminated ==
    /\ (\E i \in DOMAIN rx : rx[i].type = "Quit") ~> (state = "Terminated")
    /\ (~txOpen) ~> (state = "Terminated")
    /\ [][(state = "Running" /\ state' = "Terminated" /\ ev' = ev)
            => (rx = <<>> /\ ~txOpen)]_vars
    /\ [][(state = "Running" /\ ~txOpen /\ rx # <<>>)
            => (state' = "Running" \/ Head(rx).type = "Quit")]_vars

\* The channel was closed with two Connects waiting in it; both were handled
\* before the loop ended without a Quit.
C20_Witness ==
    /\ state = "Terminated"
    /\ ~txOpen
    /\ rx = <<>>
    /\ ev.type = "Connect"
    /\ result = "Ok"
    /\ Len(pool) = 2

====
